---------------------------- MODULE Spec2Model ----------------------------
(***************************************************************************)
(* A model of ved's Movie (src/ved/movie.py): the recording loop           *)
(* _record_frames, the sample packing it performs, gcd/lcm, and record's   *)
(* handling of the destination file, the scratch directory and the ffmpeg  *)
(* process; screenshot; and the node lists of several Movies.              *)
(*                                                                         *)
(* Python floats are IEEE-754 binary64.  The clock of the recording loop   *)
(* is a float that is advanced by repeated addition, so the model carries  *)
(* floats exactly: a float is a record [mant, exp] whose value is          *)
(* mant * 2^exp, mant being a natural number of exactly MantBits bits (or  *)
(* 0 for 0.0) held as a tuple of base-2^15 digits, least significant       *)
(* first.  Every float operation rounds to nearest, ties to even, as the   *)
(* hardware does.  Only non-negative floats occur for the inputs the model *)
(* draws.                                                                  *)
(***************************************************************************)
EXTENDS Integers, Sequences, FiniteSets, TLC

-----------------------------------------------------------------------------
(* Bounds of the model *)

\* rates are drawn from 1..MaxRate (Hz)
MaxRate == 3
\* start_time and end_time are drawn from 0..MaxTime half-seconds
MaxTime == 3
\* samples are drawn from the multiples of 2^-SampleBits in [-1.0, 1.0]
SampleBits == 3
\* the arguments of lcm are drawn from 1..MaxArg where lcm is checked alone
MaxArg == 12
\* at most MaxMovies Movies are constructed where their lists are checked
MaxMovies == 3
\* a list of nodes is appended to until it holds MaxNodes nodes
MaxNodes == 2

-----------------------------------------------------------------------------
(* Wide natural numbers: tuples of eight base-2^15 digits *)

Base == 2^15
Limbs == 1..8

Limb(w, j) == IF j \in Limbs THEN w[j] ELSE 0

\* the tuple form of a digit function
WTuple(w) == <<w[1], w[2], w[3], w[4], w[5], w[6], w[7], w[8]>>

WZero == <<0, 0, 0, 0, 0, 0, 0, 0>>

\* a natural number below 2^31 as a wide number
WOfInt(n) == WTuple([j \in Limbs |-> IF j <= 3 THEN (n \div Base^(j - 1)) % Base ELSE 0])

\* the value of a wide number that is below 2^31
WToInt(w) == w[1] + (Base * w[2]) + (Base * Base * w[3])

\* w * 2^s
WShl(w, s) ==
    LET q == s \div 15
        r == s % 15
    IN  WTuple([j \in Limbs |-> ((Limb(w, j - q) * 2^r) % Base)
                                + ((Limb(w, j - q - 1) * 2^r) \div Base)])

\* floor(w / 2^s)
WShr(w, s) ==
    LET q == s \div 15
        r == s % 15
    IN  WTuple([j \in Limbs |-> (Limb(w, j + q) \div 2^r)
                                + ((Limb(w, j + q + 1) % 2^r) * 2^(15 - r))])

\* the number of binary digits of w
WBitLen(w) ==
    LET S == {j \in Limbs : w[j] # 0} IN
    IF S = {} THEN 0
    ELSE LET top == CHOOSE j \in S : \A k \in S : k <= j
             len == CHOOSE k \in 1..15 : w[top] < 2^k /\ w[top] >= 2^(k - 1)
         IN  15 * (top - 1) + len

\* binary digit i of w, digit 1 being the least significant
WBit(w, i) == (Limb(w, (i - 1) \div 15 + 1) \div 2^((i - 1) % 15)) % 2

\* whether the d least significant binary digits of w are all zero
WLowZero(w, d) == WShl(WShr(w, d), d) = w

\* a <= b
WLeq(a, b) ==
    \/ a = b
    \/ \E j \in Limbs : a[j] < b[j] /\ \A k \in Limbs : k > j => a[k] = b[k]

RECURSIVE WCarry(_, _, _)
\* the carry into digit j of a + b
WCarry(a, b, j) ==
    IF j = 1 THEN 0 ELSE (a[j - 1] + b[j - 1] + WCarry(a, b, j - 1)) \div Base

\* a + b
WAdd(a, b) == WTuple([j \in Limbs |-> (a[j] + b[j] + WCarry(a, b, j)) % Base])

RECURSIVE WRem(_, _, _)
\* the remainder of digits 8..j of w by n (schoolbook division, n <= 2^15)
WRem(w, n, j) ==
    IF j > 8 THEN 0 ELSE (WRem(w, n, j + 1) * Base + w[j]) % n

\* floor(w / n)
WDiv(w, n) == WTuple([j \in Limbs |-> (WRem(w, n, j + 1) * Base + w[j]) \div n])

-----------------------------------------------------------------------------
(* IEEE-754 binary64 arithmetic on non-negative values *)

\* bits of precision of a Python float
MantBits == 53

FloatZero == [mant |-> WZero, exp |-> 0]

\* The float nearest to w * 2^e (plus a non-zero tail below it when sticky),
\* ties to even; w # 0.
RoundWide(w, e, sticky) ==
    LET n == WBitLen(w) IN
    IF n <= MantBits
    THEN [mant |-> WShl(w, MantBits - n), exp |-> e - (MantBits - n)]
    ELSE LET drop == n - MantBits
             kept == WShr(w, drop)
             tail == sticky \/ ~WLowZero(w, drop - 1)
             up   == WBit(w, drop) = 1 /\ (tail \/ WBit(kept, 1) = 1)
             r    == IF up THEN WAdd(kept, WOfInt(1)) ELSE kept
         IN  IF WBitLen(r) > MantBits
             THEN [mant |-> WShr(r, 1), exp |-> e + drop + 1]
             ELSE [mant |-> r, exp |-> e + drop]

\* float(n) for a natural number n below 2^31
FloatOfInt(n) == IF n = 0 THEN FloatZero ELSE RoundWide(WOfInt(n), 0, FALSE)

\* x / n for a float x and an integer n in 1..2^15, correctly rounded
FloatDivInt(x, n) ==
    IF x.mant = WZero THEN FloatZero
    ELSE LET k == WBitLen(WOfInt(n)) + 3
             d == WShl(x.mant, k)
         IN  RoundWide(WDiv(d, n), x.exp - k, WRem(d, n, 1) # 0)

\* x + y, correctly rounded
FloatAdd(x, y) ==
    IF x.mant = WZero THEN y
    ELSE IF y.mant = WZero THEN x
    ELSE IF x.exp - y.exp > MantBits + 2 THEN x
    ELSE IF y.exp - x.exp > MantBits + 2 THEN y
    ELSE LET e == IF x.exp < y.exp THEN x.exp ELSE y.exp
         IN  RoundWide(WAdd(WShl(x.mant, x.exp - e), WShl(y.mant, y.exp - e)),
                       e, FALSE)

\* x <= y
FloatLeq(x, y) ==
    IF x.mant = WZero THEN TRUE
    ELSE IF y.mant = WZero THEN FALSE
    ELSE IF x.exp # y.exp THEN x.exp < y.exp
    ELSE WLeq(x.mant, y.mant)

\* whether the float is a whole number
FloatIsInt(x) ==
    \/ x.mant = WZero
    \/ x.exp >= 0
    \/ -x.exp < MantBits /\ WLowZero(x.mant, -x.exp)

\* the whole number a float holds (for whole floats below 2^31)
FloatToInt(x) == IF x.mant = WZero THEN 0 ELSE WToInt(WShr(x.mant, -x.exp))

\* FloatModIsZero with the counter taken one step late
FloatModIsZeroLate(p, q) ==
    IF FloatIsInt(q) /\ q.exp <= 30 - MantBits
    THEN (p + 1) % FloatToInt(q) = 0
    ELSE FALSE

\* whether p % q == 0 for a natural number p below 2^31 and a float q > 0
\* (Python converts p to float and takes the exact floating remainder).
\* For a whole q that is q dividing p.  Otherwise q is odd * 2^e with e < 0,
\* and p is a multiple of q iff it is one of odd.
FloatModIsZero(p, q) ==
    IF q.exp > 30 - MantBits THEN p = 0
    ELSE IF FloatIsInt(q) THEN p % FloatToInt(q) = 0
    ELSE LET tz  == CHOOSE d \in 0..(MantBits - 1) :
                       WLowZero(q.mant, d) /\ ~WLowZero(q.mant, d + 1)
             odd == WShr(q.mant, tz)
         IN  IF WBitLen(odd) > 30 THEN p = 0 ELSE p % WToInt(odd) = 0

-----------------------------------------------------------------------------
(* gcd and lcm, src/ved/movie.py:243-250 *)

RECURSIVE gcd(_, _)
gcd(a, b) == IF a = 0 THEN b ELSE gcd(b % a, a)

\* lcm without the division by the gcd
lcm_product(a, b) == FloatOfInt(a * b)

\* (a * b) / gcd(a, b): Python's true division, so the result is a float
lcm(a, b) == FloatDivInt(FloatOfInt(a * b), gcd(a, b))

-----------------------------------------------------------------------------
(* Times, samples and nodes *)

\* the float of a time literal of h half-seconds (0.0, 0.5, 1.0, ...)
Seconds(h) == FloatDivInt(FloatOfInt(h), 2)

\* a sample k stands for the float k / 2^SampleBits, which is exact
SampleUnit == 2^SampleBits
Samples == (-SampleUnit)..SampleUnit

\* int(x) truncates towards zero
TruncDiv(x, d) == IF x >= 0 THEN x \div d ELSE -((-x) \div d)

\* int(sample * 2 ** bits) for bits < 31
ScaleSample(k, bits) ==
    IF bits >= SampleBits THEN k * 2^(bits - SampleBits)
    ELSE TruncDiv(k, 2^(SampleBits - bits))

\* the low byte of i alone
LEBytesOne(i, n) == <<i % 256>>

\* the n bytes of i, little-endian, two's complement
LEBytes(i, n) == [j \in 1..n |-> (i \div 256^(j - 1)) % 256]

AudioNode(st, et, out, ch, size, wave) ==
    [kind |-> "audio", start_time |-> Seconds(st), end_time |-> Seconds(et),
     output_audio |-> out,
     channels |-> ch, sample_size |-> size, wave |-> wave]

VideoNode(st, et) ==
    [kind |-> "video", start_time |-> Seconds(st), end_time |-> Seconds(et),
     output_audio |-> FALSE,
     channels |-> 0, sample_size |-> 0, wave |-> <<>>]

\* a local variable that holds bytes, or has not been assigned yet
Bound(bytes) == [bound |-> TRUE, bytes |-> bytes]
Unbound == [bound |-> FALSE, bytes |-> <<>>]

\* The timelines a Movie is constructed with.  The times of a node are given
\* in half-seconds.
\* A node's wave is the signal its evaluation computes: the sample it stores
\* at the k-th tick of the movie is wave[k mod Len(wave)].
Timelines ==
    { <<>>,
      <<VideoNode(0, MaxTime), VideoNode(1, 2)>>,
      <<AudioNode(0, MaxTime + 1, TRUE, 1, 16, <<0, 2, -SampleUnit, -1>>)>>,
      <<AudioNode(0, MaxTime + 1, TRUE, 2, 8, <<-SampleUnit, 0, 3>>),
        AudioNode(0, MaxTime + 1, TRUE, 1, 32, <<-SampleUnit, 1>>)>>,
      <<AudioNode(0, MaxTime + 1, TRUE, 1, 16, <<0, SampleUnit>>)>>,
      <<AudioNode(0, MaxTime + 1, TRUE, 1, 8, <<0, 0, SampleUnit>>)>>,
      <<AudioNode(0, MaxTime + 1, TRUE, 1, 32, <<SampleUnit>>)>>,
      <<AudioNode(2, 2, TRUE, 1, 16, <<1>>), VideoNode(3, 1)>>,
      <<AudioNode(2, MaxTime + 1, TRUE, 2, 16, <<1, 2>>)>>,
      <<AudioNode(0, MaxTime + 1, FALSE, 1, 16, <<1>>),
        AudioNode(0, MaxTime + 1, TRUE, 0, 16, <<1>>)>>,
      <<AudioNode(0, MaxTime + 1, TRUE, 1, 24, <<0>>)>>,
      <<AudioNode(0, MaxTime + 1, TRUE, 1, 8, <<0>>),
        AudioNode(0, MaxTime + 1, TRUE, 1, 24, <<0>>)>>,
      <<AudioNode(0, MaxTime + 1, TRUE, 1, 5, <<0>>)>>,
      <<AudioNode(0, MaxTime + 1, TRUE, 1, 16, <<-1>>),
        AudioNode(0, MaxTime + 1, TRUE, 2, 5, <<0>>)>> }

-----------------------------------------------------------------------------
(* State *)

VARIABLES
    nodes,          \* Movie.nodes
    samples,        \* node index -> node.samples, one sample per channel
    current_time,   \* Movie.current_time (float)
    window,         \* the movie window's colour buffer: the video nodes blitted
    ticks,          \* number of calls of tick() so far
    pc,             \* where the call of record stands
    args,           \* record's arguments
    disk,           \* the file at `filename`
    sink,           \* the bytes written to a caller-supplied `file`
    close_file,     \* record's local close_file
    tmp,            \* the scratch directory of mkdtemp
    increment,      \* _record_frames: increment (float)
    progress,       \* _record_frames: progress
    pixel_data,     \* _record_frames: pixel_data, one entry per saved frame
    audio_data,     \* _record_frames: audio_data, in insertion order
    b,              \* _record_frames: the local b, unbound until assigned
    captures,       \* node index -> number of captures performed for the node
    last,           \* what the last completed step of the loop decided
    cmd,            \* the ffmpeg command line, a sequence of tokens
    proc,           \* the finished ffmpeg process: its stdout and stderr
    error,          \* the exception record raised, or "none"
    message,        \* the arguments of the exception raised, if it has any
    shot,           \* the image screenshot saved, and the clock it was taken at
    heap,           \* the list objects; heap[1] is the default of __init__'s nodes
    movies,         \* the Movies constructed: the list each one's nodes refers to
    added           \* the Movie whose nodes the caller last appended to (0: none)

vars == <<nodes, samples, current_time, window, ticks, pc, args, disk, sink,
          close_file, tmp, increment, progress, pixel_data, audio_data, b,
          captures, last, cmd, proc, error, message, shot, heap, movies,
          added>>

movie_vars == <<nodes, samples, current_time, window, ticks>>
loop_vars == <<increment, progress, pixel_data, audio_data, b, captures, last>>
other_vars == <<shot, heap, movies, added>>

NoArgs == [file_given |-> FALSE, frame_rate |-> 0, sample_rate |-> 0,
           start_time |-> FloatZero, end_time |-> FloatZero,
           ffmpeg_options |-> <<>>]

NoMessage == [cmd |-> <<>>, text |-> <<>>]
NoShot == [state |-> "none", time |-> FloatZero, clock |-> FloatZero,
           image |-> <<>>]

\* the list object that is the default value of __init__'s parameter nodes,
\* created once, when the def statement is executed
DefaultNodes == 1

\* Movie.__init__ (and Audio.__init__ for the placeholder sample), before a
\* call with the arguments a.  h holds the list objects and ms the Movies
\* constructed; nodes is the collection of the Movie the calls are made on.
ConstructedIn(ns, a, h, ms) ==
    /\ heap = h
    /\ movies = ms
    /\ added = 0
    /\ message = NoMessage
    /\ shot = NoShot
    /\ nodes = ns
    /\ samples = [i \in 1..Len(ns) |-> [c \in 1..ns[i].channels |-> 0]]
    /\ current_time = FloatZero
    /\ window = <<>>
    /\ ticks = 0
    /\ pc = "idle"
    /\ args = a
    /\ disk = [state |-> "untouched", data |-> <<>>]
    /\ sink = <<>>
    /\ close_file = FALSE
    /\ tmp = [state |-> "none", files |-> <<>>]
    /\ increment = FloatZero
    /\ progress = 0
    /\ pixel_data = <<>>
    /\ audio_data = <<>>
    /\ b = Unbound
    /\ captures = [i \in 1..Len(ns) |-> 0]
    /\ last = [progress |-> -1, audio |-> FALSE, frame |-> FALSE]
    /\ cmd = <<>>
    /\ proc = [state |-> "none", stdout |-> <<>>, stderr |-> <<>>]
    /\ error = "none"

\* Movie(width, height, ns): the caller passes the list ns
Constructed(ns, a) ==
    ConstructedIn(ns, a, <<<<>>, ns>>, <<[list |-> 2, explicit |-> TRUE]>>)

Init == \E ns \in Timelines : Constructed(ns, NoArgs)

-----------------------------------------------------------------------------
(* Movie: duration, tick *)

FloatMax(x, y) == IF FloatLeq(x, y) THEN y ELSE x

RECURSIVE DurationFrom(_, _)
\* the loop of the duration property over nodes[k..]
DurationFrom(k, d) ==
    IF k > Len(nodes) THEN d
    ELSE DurationFrom(k + 1, FloatMax(d, nodes[k].end_time))

duration == DurationFrom(1, FloatZero)

\* node.start_time <= self.current_time < node.end_time
Active(node, t) ==
    /\ FloatLeq(node.start_time, t)
    /\ ~FloatLeq(node.end_time, t)

ActiveNodes(t) == {i \in 1..Len(nodes) : Active(nodes[i], t)}

\* node(self) for an audio node: it stores the sample of its signal
Evaluate(i) ==
    [c \in 1..nodes[i].channels |->
        nodes[i].wave[(ticks % Len(nodes[i].wave)) + 1]]

\* _process_nodes, evaluating the active nodes below index stop
ProcessNodes(stop) ==
    [i \in 1..Len(nodes) |->
        IF i < stop /\ Active(nodes[i], current_time) THEN Evaluate(i)
        ELSE samples[i]]

\* _draw: the active video nodes are blitted onto the cleared window
Draw ==
    SelectSeq([i \in 1..Len(nodes) |-> i],
              LAMBDA i : nodes[i].kind = "video" /\ Active(nodes[i], current_time))

-----------------------------------------------------------------------------
(* _record_frames: capturing audio *)

has_audio(node) ==
    node.kind = "audio" /\ node.output_audio /\ node.channels > 0

get_audio_output_nodes ==
    SelectSeq([i \in 1..Len(nodes) |-> i], LAMBDA i : has_audio(nodes[i]))

\* struct.pack('<B', i): an unsigned byte
PackB(i) ==
    IF i \in 0..255 THEN [err |-> "none", b |-> Bound(LEBytes(i, 1))]
    ELSE [err |-> "struct.error", b |-> Unbound]

\* struct.pack('<h', i): a signed 16-bit integer
PackH(i) ==
    IF i \in (-(2^15))..(2^15 - 1) THEN [err |-> "none", b |-> Bound(LEBytes(i, 2))]
    ELSE [err |-> "struct.error", b |-> Unbound]

\* struct.pack('<i', int(sample * 2 ** 31)): sample 1.0 is the one sample of
\* [-1.0, 1.0] whose scaled value, 2^31, is no signed 32-bit integer
PackI(sample) ==
    IF sample >= SampleUnit THEN [err |-> "struct.error", b |-> Unbound]
    ELSE [err |-> "none", b |-> Bound(LEBytes(ScaleSample(sample, 31), 4))]

\* The if/elif chain of lines 160-171 for one sample: the bytes it assigns
\* to b, or the exception it raises.  No branch is taken for a sample_size
\* other than 8, 16, 24, 32, and b keeps the value it had.
PackSample(sample_size, sample, old_b) ==
    IF sample_size = 8 THEN PackB(ScaleSample(SampleUnit + sample, 7))
    ELSE IF sample_size = 16 THEN PackH(ScaleSample(sample, 15))
    ELSE IF sample_size = 24 THEN [err |-> "NotImplementedError", b |-> Unbound]
    ELSE IF sample_size = 32 THEN PackI(sample)
    ELSE [err |-> "none", b |-> old_b]

RECURSIVE WriteChannels(_, _, _, _, _)
\* `for sample in node.samples` from channel c on: pack, then
\* audio_data[node].write(b); reading an unassigned b raises
WriteChannels(sample_size, ss, c, data, old_b) ==
    IF c > Len(ss) THEN [err |-> "none", data |-> data, b |-> old_b]
    ELSE LET p == PackSample(sample_size, ss[c], old_b) IN
         IF p.err # "none" THEN [err |-> p.err, data |-> data, b |-> old_b]
         ELSE IF ~p.b.bound
         THEN [err |-> "UnboundLocalError", data |-> data, b |-> old_b]
         ELSE WriteChannels(sample_size, ss, c + 1, data \o p.b.bytes, p.b)

\* no node is ever found in audio_data
HasEntryNever(ad, n) == FALSE

\* node in audio_data
HasEntry(ad, n) == \E k \in 1..Len(ad) : ad[k].node = n
EntryOf(ad, n) == CHOOSE k \in 1..Len(ad) : ad[k].node = n

RECURSIVE CaptureAudio(_, _, _, _, _, _)
\* `for node in self._get_audio_output_nodes()` from the k-th node of ns on
CaptureAudio(ns, k, smp, ad, old_b, caps) ==
    IF k > Len(ns) THEN [err |-> "none", ad |-> ad, b |-> old_b, caps |-> caps]
    ELSE LET n   == ns[k]
             ad1 == IF HasEntry(ad, n) THEN ad
                    ELSE Append(ad, [node |-> n, data |-> <<>>])
             j   == EntryOf(ad1, n)
             w   == WriteChannels(nodes[n].sample_size, smp[n], 1,
                                  ad1[j].data, old_b)
             ad2 == [ad1 EXCEPT ![j].data = w.data]
         IN  IF w.err # "none"
             THEN [err |-> w.err, ad |-> ad2, b |-> w.b, caps |-> caps]
             ELSE CaptureAudio(ns, k + 1, smp, ad2, w.b,
                               [caps EXCEPT ![n] = @ + 1])

-----------------------------------------------------------------------------
(* record and _record_frames *)

Raise(e) == pc' = "raised" /\ error' = e /\ message' = NoMessage

\* the values of ffmpeg_options the caller passes
Options == {<<>>, <<"-shortest">>}

\* record, lines 213-221, and the head of _record_frames, lines 138-143, for
\* a pair <<frame_rate, sample_rate>> of rates.  end_time is None (the
\* duration is taken) or a time literal.  lcm divides by gcd(0, 0) = 0 when
\* both rates are 0.
RecordWith(rates) ==
    /\ pc = "idle"
    /\ \E file_given \in BOOLEAN, r \in rates, opts \in Options,
          st \in 0..MaxTime, et \in 0..(MaxTime + 1) :
          /\ args' = [file_given |-> file_given, frame_rate |-> r[1],
                      sample_rate |-> r[2], start_time |-> Seconds(st),
                      end_time |-> IF et > MaxTime THEN duration ELSE Seconds(et),
                      ffmpeg_options |-> opts]
          /\ close_file' = ~file_given
          /\ disk' = IF file_given THEN disk
                     ELSE [state |-> "open", data |-> <<>>]
          /\ tmp' = [state |-> "exists", files |-> <<>>]
          /\ IF gcd(r[1], r[2]) = 0
             THEN /\ Raise("ZeroDivisionError")
                  /\ UNCHANGED <<increment, current_time>>
             ELSE /\ increment' = lcm(r[1], r[2])
                  /\ current_time' = Seconds(st)
                  /\ pc' = "frames"
                  /\ UNCHANGED <<error, message>>
    /\ pixel_data' = <<>>
    /\ audio_data' = <<>>
    /\ progress' = 0
    /\ UNCHANGED <<nodes, samples, window, ticks, sink, b, captures, last,
                   cmd, proc>>
    /\ UNCHANGED other_vars

\* record called with positive rates
Record == RecordWith((1..MaxRate) \X (1..MaxRate))

\* The captures of one iteration, lines 150-183, and the advance of the
\* clock and of progress, lines 186-188.  smp holds the samples the nodes
\* store and image is the colour buffer that is saved; audio and frame are
\* the values of the two conditions, step is 1.0 / increment.
CaptureStep(smp, image, audio, frame, step) ==
    \E cap \in {IF audio
                THEN CaptureAudio(get_audio_output_nodes, 1, smp, audio_data,
                                  b, captures)
                ELSE [err |-> "none", ad |-> audio_data, b |-> b,
                      caps |-> captures]} :
        /\ audio_data' = cap.ad
        /\ b' = cap.b
        /\ captures' = cap.caps
        /\ IF cap.err # "none"
           THEN /\ Raise(cap.err)
                /\ UNCHANGED <<pixel_data, current_time, progress, last>>
           ELSE /\ pixel_data' = IF frame THEN Append(pixel_data, image)
                                 ELSE pixel_data
                /\ current_time' = FloatAdd(current_time, step)
                /\ last' = [progress |-> progress, audio |-> audio,
                            frame |-> frame]
                /\ progress' = progress + 1
                /\ UNCHANGED <<pc, error, message>>

\* the captures taken of the state the tick found, not of the one it left
CaptureAndAdvanceStale(smp, audio, frame, step) ==
    CaptureStep(samples, window, audio, frame, step)

\* Lines 150-188 after self.tick() of line 145: the captures read the
\* samples the tick stored (smp) and the window it drew.
CaptureAndAdvance(smp, audio, frame, step) ==
    CaptureStep(smp, Draw, audio, frame, step)

\* One iteration of the while loop of _record_frames, lines 144-188.
\* A node's evaluation may raise; `failing` is the node that does (0: none).
\* Line 150 divides by sample_rate and takes progress modulo the quotient:
\* either raises ZeroDivisionError when a rate is 0 (increment is then 0.0).
RecordStep ==
    /\ pc = "frames"
    /\ FloatLeq(current_time, args.end_time)
    /\ ticks' = ticks + 1
    /\ \E failing \in {0} \cup ActiveNodes(current_time) :
          IF failing # 0
          THEN /\ samples' = ProcessNodes(failing)
               /\ Raise("NodeEvaluationFailure")
               /\ UNCHANGED <<window, current_time, audio_data, b, captures,
                              pixel_data, progress, last>>
          ELSE /\ samples' = ProcessNodes(Len(nodes) + 1)
               /\ window' = Draw
               /\ IF args.sample_rate = 0 \/ increment = FloatZero
                  THEN /\ Raise("ZeroDivisionError")
                       /\ UNCHANGED <<current_time, audio_data, b, captures,
                                      pixel_data, progress, last>>
                  ELSE \E per_sample \in {FloatDivInt(increment, args.sample_rate)},
                          per_frame \in {FloatDivInt(increment, args.frame_rate)},
                          step \in {FloatDivInt(FloatOfInt(1), FloatToInt(increment))} :
                          CaptureAndAdvance(samples',
                                            FloatModIsZero(progress, per_sample),
                                            FloatModIsZero(progress, per_frame),
                                            step)
    /\ UNCHANGED <<nodes, args, disk, sink, close_file, tmp, increment, cmd, proc>>
    /\ UNCHANGED other_vars

\* wav.setsampwidth(node.sample_size // 8) accepts the widths 1..4
SampwidthOk(node) == (node.sample_size \div 8) \in 1..4

\* The scratch file _write_audio_data leaves for the k-th buffer.  The
\* function never closes or flushes f and wav: the bytes reach the file when
\* the interpreter finalises the two objects, which is at the return under
\* reference counting and at some later collection otherwise (fin).
ClipFile(k, fin) ==
    LET node == nodes[audio_data[k].node] IN
    [clip |-> k - 1, nchannels |-> node.channels,
     framerate |-> args.sample_rate, sampwidth |-> node.sample_size \div 8,
     frames |-> audio_data[k].data, closed |-> fin]

\* the scratch file of a buffer whose width setsampwidth rejects: created
\* by open, empty
RejectedClipFile(k) ==
    [clip |-> k - 1, nchannels |-> nodes[audio_data[k].node].channels,
     framerate |-> args.sample_rate, sampwidth |-> 0,
     frames |-> <<>>, closed |-> FALSE]

\* the first buffer whose file cannot be written, or 0
FirstBadClip ==
    LET bad == {k \in 1..Len(audio_data) : ~SampwidthOk(nodes[audio_data[k].node])}
    IN  IF bad = {} THEN 0 ELSE CHOOSE k \in bad : \A m \in bad : k <= m

\* a word of the command line with the word that follows it, if it takes one
Tok(o, a) == [opt |-> o, arg |-> a]

\* 'pipe:'
Pipe == [kind |-> "pipe", id |-> 0]

\* every clip at the path of audio_0.wav
ClipPathShared(audio_id) == [kind |-> "file", id |-> 0]

\* os.path.join(tmp, 'audio_{}.wav'.format(audio_id))
ClipPath(audio_id) == [kind |-> "file", id |-> audio_id]

\* filename[filename.rfind('.') + 1:], the filename being out.mp4
Format == "mp4"

RECURSIVE AudioInputs(_)
\* The loop of lines 122-127 from the k-th entry of audio_data on, audio_id
\* being k - 1.  '{}'.format(node.start_time) is the shortest decimal that
\* reads back as the same float, so the word carries the float.
AudioInputs(k) ==
    IF k > Len(audio_data) THEN <<>>
    ELSE <<Tok("-itsoffset", nodes[audio_data[k].node].start_time),
           Tok("-i", ClipPath(k - 1))>> \o AudioInputs(k + 1)

\* the command line of lines 120-133
Command ==
    <<Tok("ffmpeg", ""), Tok("-r", args.frame_rate), Tok("-f", "png_pipe"),
      Tok("-i", Pipe)>>
    \o AudioInputs(1)
    \o <<Tok("-y", ""), Tok("-r", args.frame_rate),
         Tok("-ar", args.sample_rate), Tok("-f", Format)>>
    \o [i \in 1..Len(args.ffmpeg_options) |-> Tok(args.ffmpeg_options[i], "")]
    \o <<Tok("pipe:", ""), Tok("-v", "error")>>

\* The loop's exit (line 190) and _prepare_record_command, lines 115-134,
\* with _write_audio_data, lines 107-113.
PrepareRecordCommand ==
    /\ pc = "frames"
    /\ ~FloatLeq(current_time, args.end_time)
    /\ \E fin \in [1..Len(audio_data) -> BOOLEAN] :
        IF FirstBadClip # 0
        THEN /\ tmp' = [tmp EXCEPT !.files =
                          [k \in 1..FirstBadClip |->
                              IF k < FirstBadClip THEN ClipFile(k, fin[k])
                              ELSE RejectedClipFile(k)]]
             /\ Raise("wave.Error")
             /\ UNCHANGED cmd
        ELSE /\ tmp' = [tmp EXCEPT !.files =
                          [k \in 1..Len(audio_data) |-> ClipFile(k, fin[k])]]
             /\ cmd' = Command
             /\ pc' = "spawn"
             /\ UNCHANGED <<error, message>>
    /\ UNCHANGED movie_vars
    /\ UNCHANGED loop_vars
    /\ UNCHANGED <<args, disk, sink, close_file, proc>>
    /\ UNCHANGED other_vars

\* what ffmpeg may answer: output and no diagnostics, or diagnostics ("e\n")
Outcomes ==
    { [state |-> "exited", stdout |-> <<102, 102>>, stderr |-> <<>>],
      [state |-> "exited", stdout |-> <<102>>, stderr |-> <<101, 10>>] }

\* subprocess.Popen and proc.communicate, lines 228-232
RunEncoder ==
    /\ pc = "spawn"
    /\ proc' \in Outcomes
    /\ pc' = "ran"
    /\ UNCHANGED movie_vars
    /\ UNCHANGED loop_vars
    /\ UNCHANGED <<args, disk, sink, close_file, tmp, cmd, error, message>>
    /\ UNCHANGED other_vars

RECURSIVE Escape(_)
\* the body of repr(bytes): a newline is written \n, a backslash and a quote
\* are preceded by a backslash, a printable byte is itself
Escape(bytes) ==
    IF bytes = <<>> THEN <<>>
    ELSE (IF Head(bytes) = 10 THEN <<92, 110>>
          ELSE IF Head(bytes) \in {39, 92} THEN <<92, Head(bytes)>>
          ELSE <<Head(bytes)>>) \o Escape(Tail(bytes))

\* '{}'.format(stderr) of a bytes object: b'...'
Repr(bytes) == <<98, 39>> \o Escape(bytes) \o <<39>>

\* the message without the diagnostics
ErrorMessageBare(c, e) == [cmd |-> c, text |-> <<>>]

\* 'Error running `{}`:\n{}'.format(cmd, stderr)
ErrorMessage(c, e) == [cmd |-> c, text |-> Repr(e)]

\* rmtree(tmp), the check of stderr, and the write, lines 234-240
Finish ==
    /\ pc = "ran"
    /\ tmp' = [state |-> "removed", files |-> <<>>]
    /\ IF proc.stderr # <<>>
       THEN /\ pc' = "raised"
            /\ error' = "RuntimeError"
            /\ message' = ErrorMessage(cmd, proc.stderr)
            /\ UNCHANGED <<disk, sink>>
       ELSE /\ IF args.file_given
               THEN sink' = sink \o proc.stdout /\ UNCHANGED disk
               ELSE disk' = [state |-> "closed", data |-> proc.stdout]
                    /\ UNCHANGED sink
            /\ pc' = "done"
            /\ UNCHANGED <<error, message>>
    /\ UNCHANGED movie_vars
    /\ UNCHANGED loop_vars
    /\ UNCHANGED <<args, close_file, cmd, proc>>
    /\ UNCHANGED other_vars

Next == Record \/ RecordStep \/ PrepareRecordCommand \/ RunEncoder \/ Finish

Spec == Init /\ [][Next]_vars

-----------------------------------------------------------------------------
(* lcm alone: the arguments are drawn, one action applies lcm *)

InitLcm ==
    \E x \in 1..MaxArg, y \in 1..MaxArg :
        Constructed(<<>>, [NoArgs EXCEPT !.frame_rate = x, !.sample_rate = y])

\* increment = lcm(frame_rate, sample_rate), line 138
LcmCall ==
    /\ pc = "idle"
    /\ increment' = lcm(args.frame_rate, args.sample_rate)
    /\ pc' = "lcm"
    /\ UNCHANGED <<nodes, samples, current_time, window, ticks, args, disk,
                   sink, close_file, tmp, progress, pixel_data, audio_data, b,
                   captures, last, cmd, proc, error, message>>
    /\ UNCHANGED other_vars

SpecLcm == InitLcm /\ [][LcmCall]_vars

-----------------------------------------------------------------------------
(* The packing of one sample alone: a one-channel node of each width holds  *)
(* each sample, one action runs lines 153-172 for it                        *)

SampleSizes == {5, 8, 16, 24, 32}

InitPack ==
    \E size \in SampleSizes, sample \in Samples :
        Constructed(<<AudioNode(0, 1, TRUE, 1, size, <<sample>>)>>, NoArgs)

PackCall ==
    /\ pc = "idle"
    /\ samples' = [i \in {1} |-> <<nodes[1].wave[1]>>]
    /\ \E cap \in {CaptureAudio(<<1>>, 1, samples', audio_data, b, captures)} :
          /\ audio_data' = cap.ad
          /\ b' = cap.b
          /\ captures' = cap.caps
          /\ error' = cap.err
          /\ pc' = IF cap.err = "none" THEN "packed" ELSE "raised"
    /\ UNCHANGED <<nodes, current_time, window, ticks, args, disk, sink,
                   close_file, tmp, increment, progress, pixel_data, last,
                   cmd, proc, message>>
    /\ UNCHANGED other_vars

SpecPack == InitPack /\ [][PackCall]_vars

-----------------------------------------------------------------------------
(* screenshot, on a new Movie or after record has returned *)

\* screenshot(time, filename), lines 83-97: self.tick(), then the colour
\* buffer is saved.  The parameter time is not used.  A node's evaluation
\* may raise; `failing` is the node that does (0: none).
Screenshot ==
    /\ pc \in {"idle", "done"}
    /\ shot.state = "none"
    /\ ticks' = ticks + 1
    /\ \E t \in 0..MaxTime, failing \in {0} \cup ActiveNodes(current_time) :
          IF failing # 0
          THEN /\ samples' = ProcessNodes(failing)
               /\ shot' = [state |-> "failed", time |-> Seconds(t),
                           clock |-> current_time, image |-> <<>>]
               /\ Raise("NodeEvaluationFailure")
               /\ UNCHANGED window
          ELSE /\ samples' = ProcessNodes(Len(nodes) + 1)
               /\ window' = Draw
               /\ shot' = [state |-> "saved", time |-> Seconds(t),
                           clock |-> current_time, image |-> Draw]
               /\ pc' = "shot"
               /\ UNCHANGED <<error, message>>
    /\ UNCHANGED <<nodes, current_time, args, disk, sink, close_file, tmp,
                   cmd, proc, heap, movies, added>>
    /\ UNCHANGED loop_vars

NextShot == Next \/ Screenshot

SpecShot == Init /\ [][NextShot]_vars

-----------------------------------------------------------------------------
(* Several Movies and the lists their nodes refer to.  nodes, samples and   *)
(* captures are those of the first Movie, constructed as Movie(w, h).       *)

\* the nodes a caller appends
NewNodes == {VideoNode(0, 2), AudioNode(0, 1, TRUE, 1, 16, <<1>>)}

InitMovies ==
    ConstructedIn(<<>>, NoArgs, <<<<>>>>,
                  <<[list |-> DefaultNodes, explicit |-> FALSE]>>)

\* Movie(w, h) or Movie(w, h, ns): self.nodes = nodes, line 26, refers to
\* the list that was passed, which is the default's list when none was
NewMovie ==
    /\ Len(movies) < MaxMovies
    /\ \E explicit \in BOOLEAN :
          IF explicit
          THEN /\ heap' = Append(heap, <<>>)
               /\ movies' = Append(movies, [list |-> Len(heap) + 1,
                                            explicit |-> TRUE])
          ELSE /\ heap' = heap
               /\ movies' = Append(movies, [list |-> DefaultNodes,
                                            explicit |-> FALSE])
    /\ added' = 0
    /\ UNCHANGED <<nodes, samples, current_time, window, ticks, pc, args,
                   disk, sink, close_file, tmp, cmd, proc, error, message,
                   shot>>
    /\ UNCHANGED loop_vars

\* movies[m].nodes.append(node): the list self.nodes refers to grows
AddNode ==
    /\ \E m \in 1..Len(movies), node \in NewNodes :
          /\ Len(heap[movies[m].list]) < MaxNodes
          /\ heap' = [heap EXCEPT ![movies[m].list] = Append(@, node)]
          /\ added' = m
    /\ nodes' = heap'[movies[1].list]
    /\ samples' = [i \in 1..Len(nodes') |->
                      IF i <= Len(nodes) THEN samples[i]
                      ELSE [c \in 1..nodes'[i].channels |-> 0]]
    /\ captures' = [i \in 1..Len(nodes') |->
                       IF i <= Len(nodes) THEN captures[i] ELSE 0]
    /\ UNCHANGED <<movies, current_time, window, ticks, pc, args, disk, sink,
                   close_file, tmp, increment, progress, pixel_data,
                   audio_data, b, last, cmd, proc, error, message, shot>>

NextMovies == NewMovie \/ AddNode

SpecMovies == InitMovies /\ [][NextMovies]_vars

-----------------------------------------------------------------------------
(* record called with a rate of 0 *)

ZeroRates == {r \in (0..MaxRate) \X (0..MaxRate) : r[1] = 0 \/ r[2] = 0}

RecordZeroRate == RecordWith(ZeroRates)

NextZeroRate ==
    RecordZeroRate \/ RecordStep \/ PrepareRecordCommand \/ RunEncoder \/ Finish

SpecZeroRate == Init /\ [][NextZeroRate]_vars

-----------------------------------------------------------------------------
(* Properties *)

\* the least common multiple, as mathematics defines it
LeastCommonMultiple(x, y) ==
    CHOOSE m \in 1..(x * y) :
        /\ m % x = 0 /\ m % y = 0
        /\ \A k \in 1..(m - 1) : ~(k % x = 0 /\ k % y = 0)

\* a time that is a whole number of half-seconds, in half-seconds
HalfSeconds(x) == FloatToInt(FloatAdd(x, x))

\* end_time - start_time in half-seconds
WindowHalves == HalfSeconds(args.end_time) - HalfSeconds(args.start_time)

\* the loop of _record_frames ran to its end
LoopReturned ==
    \/ pc \in {"spawn", "ran", "done"}
    \/ pc = "raised" /\ error \in {"wave.Error", "RuntimeError"}

\* the node is active at every instant of the recording window
ActiveThroughout(n) ==
    /\ FloatLeq(nodes[n].start_time, args.start_time)
    /\ ~FloatLeq(nodes[n].end_time, args.end_time)

\* the bytes captured for node n so far
BufferOf(ad, n) == IF HasEntry(ad, n) THEN ad[EntryOf(ad, n)].data ELSE <<>>

\* C1: once the recording loop has run over a window start_time <= end_time
\* of duration D, it has captured floor(D * frame_rate) + 1 frames, and
\* floor(D * sample_rate) + 1 times for every audio output node that is
\* active throughout the window.  (D is (end - start) / 2 for times in
\* half-seconds, which are exact floats.)
C1_CaptureCounts ==
    (LoopReturned /\ FloatLeq(args.start_time, args.end_time)) =>
        /\ Len(pixel_data) = ((WindowHalves * args.frame_rate) \div 2) + 1
        /\ \A n \in 1..Len(nodes) :
              (has_audio(nodes[n]) /\ ActiveThroughout(n)) =>
                  captures[n] = ((WindowHalves * args.sample_rate) \div 2) + 1

\* C2: in every step of the recording loop that reaches its capture
\* decisions, a frame is saved iff progress mod (increment / frame_rate) = 0
\* and the audio of every audio output node is captured iff
\* progress mod (increment / sample_rate) = 0, increment being the least
\* common multiple of the rates and progress counting the steps from 0.  A
\* step that a sample's packing aborts was an audio-capture step.
C2_CaptureSchedule ==
    [][ (pc = "frames" /\ ticks' = ticks + 1) =>
          LET inc   == LeastCommonMultiple(args.frame_rate, args.sample_rate)
              due_f == progress % (inc \div args.frame_rate) = 0
              due_a == progress % (inc \div args.sample_rate) = 0
          IN  /\ progress' = progress + 1 =>
                    /\ progress = ticks
                    /\ Len(pixel_data') = Len(pixel_data) + (IF due_f THEN 1 ELSE 0)
                    /\ last'.frame = due_f
                    /\ last'.audio = due_a
                    /\ \A n \in 1..Len(nodes) :
                          captures'[n] = captures[n]
                              + (IF due_a /\ has_audio(nodes[n]) THEN 1 ELSE 0)
              /\ (progress' = progress /\ error' # "NodeEvaluationFailure") => due_a
              /\ audio_data' # audio_data => due_a
      ]_vars

\* C2, witness: a step after the first has saved a frame without capturing
\* audio, in a recording that has captured audio for some node
C2_Witness ==
    /\ last.progress > 0 /\ last.frame /\ ~last.audio
    /\ Len(pixel_data) > 1
    /\ \E n \in 1..Len(nodes) : captures[n] > 0

\* C3: lcm(frame_rate, sample_rate) is a whole number that both rates divide,
\* and no smaller positive number is divided by both
C3_LcmIsLeastCommonMultiple ==
    pc = "lcm" =>
        /\ FloatIsInt(increment)
        /\ increment.exp <= 30 - MantBits
        /\ LET m == FloatToInt(increment) IN
            /\ m > 0
            /\ m % args.frame_rate = 0
            /\ m % args.sample_rate = 0
            /\ \A k \in 1..(m - 1) :
                  ~(k % args.frame_rate = 0 /\ k % args.sample_rate = 0)

\* C3, witness: lcm(4, 6) has been computed, and is 12
C3_Witness ==
    /\ pc = "lcm" /\ args.frame_rate = 4 /\ args.sample_rate = 6
    /\ FloatIsInt(increment) /\ FloatToInt(increment) = 12

\* C4: once the recording loop has run over a window start_time <= end_time,
\* it has executed round((end_time - start_time) * increment) + 1 steps
\* (calls of tick).  Stated for the windows that are a whole number of clock
\* steps long, where round changes nothing.
C4_StepCount ==
    LET inc == LeastCommonMultiple(args.frame_rate, args.sample_rate) IN
    (/\ LoopReturned
     /\ FloatLeq(args.start_time, args.end_time)
     /\ (WindowHalves * inc) % 2 = 0) =>
        ticks = ((WindowHalves * inc) \div 2) + 1

\* C5: a step appends to the buffer of a node only if the node is an audio
\* node with output_audio and channels > 0 that is active at the step's
\* current_time
C5_OnlyActiveNodesCaptured ==
    [][ \A n \in 1..Len(nodes) :
          Len(BufferOf(audio_data', n)) > Len(BufferOf(audio_data, n)) =>
              has_audio(nodes[n]) /\ Active(nodes[n], current_time)
      ]_vars

\* C6: when record fails because ffmpeg wrote to its error stream, no file
\* has been created or truncated at the destination, nothing has been written
\* to it, and the scratch files are gone
C6_FailedEncoderLeavesNoOutput ==
    (pc = "raised" /\ error = "RuntimeError") =>
        /\ disk.state = "untouched"
        /\ sink = <<>>
        /\ tmp.state = "removed"

\* C7: when record has returned or raised, its scratch directory is removed
C7_ScratchRemovedOnExit ==
    pc \in {"done", "raised"} => tmp.state = "removed"

\* the signed 16-bit integer of two little-endian bytes
Signed16(bytes) ==
    LET u == bytes[1] + (256 * bytes[2]) IN IF u >= 2^15 THEN u - 2^16 ELSE u

\* C8: packing any sample of [-1.0, 1.0] for sample_size 16 does not fail and
\* yields two bytes; 1.0 yields 32767, -1.0 yields -32768, 0.0 yields 0
C8_Encode16 ==
    (pc # "idle" /\ nodes[1].sample_size = 16) =>
        /\ error = "none"
        /\ Len(BufferOf(audio_data, 1)) = 2
        /\ LET sample == nodes[1].wave[1]
               value  == Signed16(BufferOf(audio_data, 1))
           IN  /\ sample = SampleUnit => value = 2^15 - 1
               /\ sample = -SampleUnit => value = -(2^15)
               /\ sample = 0 => value = 0

\* C9: packing any sample of [-1.0, 1.0] for sample_size 8 does not fail and
\* yields one byte; -1.0 yields 0, 1.0 yields 255, 0.0 yields 128
C9_Encode8 ==
    (pc # "idle" /\ nodes[1].sample_size = 8) =>
        /\ error = "none"
        /\ Len(BufferOf(audio_data, 1)) = 1
        /\ LET sample == nodes[1].wave[1]
               value  == BufferOf(audio_data, 1)[1]
           IN  /\ sample = -SampleUnit => value = 0
               /\ sample = SampleUnit => value = 255
               /\ sample = 0 => value = 128

\* C10: once a capture has been attempted for a node whose sample_size is not
\* 8, 16 or 32, record has failed (with NotImplementedError for 24) and the
\* node's buffer holds no bytes
C10_BadWidthRejected ==
    \A k \in 1..Len(audio_data) :
        LET node == nodes[audio_data[k].node] IN
        node.sample_size \notin {8, 16, 32} =>
            /\ audio_data[k].data = <<>>
            /\ pc = "raised"
            /\ node.sample_size = 24 => error = "NotImplementedError"

\* C11: a call of record with a frame_rate or sample_rate that is not
\* positive executes no tick, captures nothing, and does not go on to build
\* the command and run ffmpeg: it can only raise
C11_NonPositiveRateRejected ==
    (pc # "idle" /\ (args.frame_rate <= 0 \/ args.sample_rate <= 0)) =>
        /\ ticks = 0
        /\ pixel_data = <<>>
        /\ audio_data = <<>>
        /\ pc \in {"frames", "raised"}

RECURSIVE Unescape(_)
\* the bytes that an escaped text stands for
Unescape(chars) ==
    IF chars = <<>> THEN <<>>
    ELSE IF Head(chars) = 92 /\ Len(chars) > 1
    THEN <<IF chars[2] = 110 THEN 10 ELSE chars[2]>>
         \o Unescape(SubSeq(chars, 3, Len(chars)))
    ELSE <<Head(chars)>> \o Unescape(Tail(chars))

\* the bytes that the text b'...' stands for
Unrepr(text) == Unescape(SubSeq(text, 3, Len(text) - 1))

\* C12: once ffmpeg has completed, record's next step depends on stderr
\* alone.  If stderr is not empty, record raises RuntimeError with a message
\* that holds the command line that was run and a text that reads back as
\* stderr, and writes nothing to the destination.  If stderr is empty, record
\* returns after writing exactly the bytes of stdout to the destination.
C12_EncoderOutcome ==
    [][ pc = "ran" =>
          IF proc.stderr # <<>>
          THEN /\ pc' = "raised" /\ error' = "RuntimeError"
               /\ message'.cmd = cmd
               /\ Len(message'.text) >= 3
               /\ Unrepr(message'.text) = proc.stderr
               /\ sink' = <<>>
               /\ disk'.data = <<>> /\ disk'.state # "closed"
          ELSE /\ pc' = "done" /\ error' = "none"
               /\ IF args.file_given
                  THEN sink' = proc.stdout /\ disk'.state = "untouched"
                  ELSE disk'.data = proc.stdout /\ sink' = <<>>
      ]_vars

\* C12, witness: record has raised RuntimeError over a command with an audio
\* input, and the message holds the diagnostics with their newline escaped
C12_Witness ==
    /\ pc = "raised" /\ error = "RuntimeError"
    /\ \E k \in 1..Len(cmd) : cmd[k].opt = "-itsoffset"
    /\ message.cmd = cmd
    /\ message.text = <<98, 39, 101, 92, 110, 39>>

\* the window as _draw leaves it at the time t
DrawAt(t) ==
    SelectSeq([i \in 1..Len(nodes) |-> i],
              LAMBDA i : nodes[i].kind = "video" /\ Active(nodes[i], t))

\* C13: when screenshot(time, destination) has saved its frame, the clock
\* was at `time` when the frame was taken and still is, one tick was
\* executed, and the frame saved is the composition of the video nodes
\* active at `time`
C13_ScreenshotAtTime ==
    shot.state = "saved" =>
        /\ shot.clock = shot.time
        /\ current_time = shot.time
        /\ shot.image = DrawAt(shot.time)

\* the places of the command line that name a piped input, a file input, and
\* the start of the output options
PipedInputs == {k \in 1..Len(cmd) : cmd[k].opt = "-i" /\ cmd[k].arg.kind = "pipe"}
FileInputs == {k \in 1..Len(cmd) : cmd[k].opt = "-i" /\ cmd[k].arg.kind = "file"}
OutputOptions == {k \in 1..Len(cmd) : cmd[k].opt = "-y"}

\* the place of the j-th file input
FileInput(j) ==
    CHOOSE f \in FileInputs : Cardinality({g \in FileInputs : g < f}) = j - 1

\* C14: a command line that has been built has one piped input; it has one
\* file input per audio buffer, the j-th one for the j-th buffer in the
\* order of first capture, each on a scratch file of its own that holds that
\* buffer, each preceded by -itsoffset with the start_time of the buffer's
\* node; the file inputs come after the piped input and before the output
\* options
C14_CommandInputs ==
    cmd # <<>> =>
        /\ Cardinality(PipedInputs) = 1
        /\ Cardinality(OutputOptions) = 1
        /\ Cardinality(FileInputs) = Len(audio_data)
        /\ \A f \in FileInputs :
              /\ \A p \in PipedInputs : p < f
              /\ \A y \in OutputOptions : f < y
              /\ \A g \in FileInputs : g # f => cmd[g].arg.id # cmd[f].arg.id
        /\ \A j \in 1..Len(audio_data) :
              LET f == FileInput(j) IN
              /\ cmd[f - 1].opt = "-itsoffset"
              /\ cmd[f - 1].arg = nodes[audio_data[j].node].start_time
              /\ pc = "spawn" =>
                    \E k \in 1..Len(tmp.files) :
                        /\ tmp.files[k].clip = cmd[f].arg.id
                        /\ tmp.files[k].frames = audio_data[j].data
        /\ Cardinality({k \in 1..Len(cmd) : cmd[k].opt = "-itsoffset"})
              = Len(audio_data)

\* C14, witness: ffmpeg is about to be started on a command line with two
\* file inputs
C14_Witness ==
    pc = "spawn" /\ Cardinality(FileInputs) = 2

C16_ClockFromProgress ==
    pc = "frames" =>
        current_time =
            FloatAdd(args.start_time,
                     FloatDivInt(FloatOfInt(progress), FloatToInt(increment)))

\* the bytes a step has appended to the buffer of node n
Appended(n) ==
    SubSeq(BufferOf(audio_data', n), Len(BufferOf(audio_data, n)) + 1,
           Len(BufferOf(audio_data', n)))

\* C17: in every step of the recording loop that goes past its tick, every
\* node active at the step's current_time has been evaluated and the window
\* composited for that time; the frame the step saves is that window and
\* the bytes it appends for a node of a width that is packed (8, 16, 32) are
\* the packing of the samples the node holds after the evaluation; the clock
\* moves in the same step, after them
C17_TickBeforeCapture ==
    [][ (pc = "frames" /\ ticks' = ticks + 1
         /\ (progress' = progress + 1 \/ audio_data' # audio_data)) =>
          /\ \A n \in ActiveNodes(current_time) : samples'[n] = Evaluate(n)
          /\ window' = DrawAt(current_time)
          /\ Len(pixel_data') > Len(pixel_data) =>
                pixel_data'[Len(pixel_data')] = DrawAt(current_time)
          /\ \A n \in 1..Len(nodes) :
                (captures'[n] > captures[n]
                 /\ nodes[n].sample_size \in {8, 16, 32}) =>
                    Appended(n) = WriteChannels(nodes[n].sample_size,
                                                samples'[n], 1, <<>>,
                                                Unbound).data
          /\ progress' = progress + 1 =>
                /\ ~FloatLeq(current_time', current_time)
                /\ last'.progress = progress
      ]_vars

\* C17, witness: a step after the first has captured, for a node that was
\* captured before, a sample that the node's evaluation in that step stored
C17_Witness ==
    /\ pc = "frames" /\ last.progress > 0 /\ last.audio
    /\ \E n \in 1..Len(nodes) :
          /\ nodes[n].sample_size = 16
          /\ captures[n] > 1
          /\ samples[n][1] # 0
          /\ Signed16(SubSeq(BufferOf(audio_data, n),
                             Len(BufferOf(audio_data, n)) - 1,
                             Len(BufferOf(audio_data, n))))
                = ScaleSample(samples[n][1], 15)

\* the nodes that are keys of the map ad
Keys(ad) == {ad[k].node : k \in 1..Len(ad)}

\* C18: in every step of a recording, every entry of audio_data stays at its
\* place in the iteration order, for the same node, and its bytes are
\* extended at the end or left alone; there is one entry per node; entries
\* that a step creates come after the existing ones, in the order in which
\* the step captures their nodes; and unless the step raised, the nodes with
\* an entry are the nodes for which a capture has been performed
C18_BuffersAppendOnly ==
    [][ /\ Len(audio_data') >= Len(audio_data)
        /\ \A k \in 1..Len(audio_data) :
              /\ audio_data'[k].node = audio_data[k].node
              /\ Len(audio_data'[k].data) >= Len(audio_data[k].data)
              /\ SubSeq(audio_data'[k].data, 1, Len(audio_data[k].data))
                    = audio_data[k].data
        /\ Cardinality(Keys(audio_data')) = Len(audio_data')
        /\ \A j, k \in (Len(audio_data) + 1)..Len(audio_data') :
              j < k => audio_data'[j].node < audio_data'[k].node
        /\ pc' # "raised" =>
              Keys(audio_data') = {n \in 1..Len(nodes) : captures'[n] > 0}
      ]_vars

\* C18, witness: two buffers exist, in the order of their first capture, and
\* each has been appended to by a second capture
C18_Witness ==
    /\ pc = "frames"
    /\ Len(audio_data) = 2
    /\ audio_data[1].node = 1 /\ audio_data[2].node = 2
    /\ captures[1] = 2 /\ captures[2] = 2
    /\ Len(audio_data[1].data) = 4 /\ Len(audio_data[2].data) = 8

\* C19: when a node is appended to the collection of one Movie constructed
\* without a node list, the collection of every other Movie constructed
\* without a node list is what it was, and so are the duration and the nodes
\* a tick evaluates (stated for the first Movie, whose nodes the model holds)
C19_OwnCollection ==
    [][ \A m \in 1..Len(movies) :
          (/\ added' # 0 /\ heap' # heap
           /\ m # added'
           /\ ~movies[m].explicit /\ ~movies[added'].explicit) =>
              /\ heap'[movies[m].list] = heap[movies[m].list]
              /\ m = 1 =>
                    /\ nodes' = nodes
                    /\ duration' = duration
                    /\ ActiveNodes(current_time)' = ActiveNodes(current_time)
      ]_vars

\* the loop of _record_frames has not been left by an exception
LoopNotAborted ==
    pc # "raised" \/ error \in {"wave.Error", "RuntimeError"}

\* C20: while the recording loop has not been aborted, the buffer of a node
\* of sample_size 8, 16 or 32 holds captures * channels * (sample_size / 8)
\* bytes, captures being the number of captures performed for the node; and
\* the node's scratch file declares the width sample_size / 8 and that
\* number of channels
C20_BufferLength ==
    LoopNotAborted =>
        \A k \in 1..Len(audio_data) :
            LET n    == audio_data[k].node
                node == nodes[n]
            IN  node.sample_size \in {8, 16, 32} =>
                  /\ Len(audio_data[k].data)
                        = captures[n] * node.channels * (node.sample_size \div 8)
                  /\ k <= Len(tmp.files) =>
                        /\ tmp.files[k].sampwidth * 8 = node.sample_size
                        /\ tmp.files[k].nchannels = node.channels
                        /\ Len(tmp.files[k].frames)
                              = captures[n] * tmp.files[k].nchannels
                                            * tmp.files[k].sampwidth

\* C20, witness: the scratch files are written for a two-channel 8-bit node
\* and a 32-bit node that were captured three times each
C20_Witness ==
    /\ pc = "spawn"
    /\ Len(tmp.files) = 2
    /\ captures[1] = 3 /\ captures[2] = 3
    /\ nodes[1].sample_size = 8 /\ nodes[1].channels = 2
    /\ Len(tmp.files[1].frames) = 6
    /\ nodes[2].sample_size = 32
    /\ Len(tmp.files[2].frames) = 12

=============================================================================
